---- MODULE Spec2Model ----
(***************************************************************************)
(* Model of the challan PDF generator service: the request handlers of     *)
(* main.py, the PDFGenerator of pdf_generator.py, the request validation   *)
(* of models.py, the date helpers of utils.py and the tables of config.py. *)
(***************************************************************************)
EXTENDS Integers, Naturals, Sequences, FiniteSets, TLC

(***************************************************************************)
(* Bounds of the model.                                                    *)
(***************************************************************************)
\* how many years before the sample year, and before the last representable
\* year, the request dates are drawn from
YearsBack == 1
\* largest number of challan records the store holds in the model
MaxStore == 3
MaxCalls == 4

(***************************************************************************)
(* config.py                                                               *)
(***************************************************************************)
FIRST_LATE_FEE_DAYS == 7
SECOND_LATE_FEE_DAYS == 14
FONT_NAME == "Helvetica-Bold"
DEFAULT_FONT_SIZE == 10
TEMPLATE_PDF_PATH == "new_pdf.pdf"

\* row3_y is 151.5 in config.py; every y of the table is kept in half points
\* (y * 2) so that it stays an integer and distinct from the other rows.
COORDINATES ==
  [ challan_no  |-> [y |-> 1142, x_positions |-> <<75, 350, 625>>],
    name        |-> [y |-> 920,  x_positions |-> <<75, 350, 625>>],
    roll        |-> [y |-> 890,  x_positions |-> <<75, 350, 625>>],
    class       |-> [y |-> 890,  x_positions |-> <<205, 475, 750>>],
    expiry_date |-> [y |-> 424,  x_positions |-> <<142, 420, 696>>],
    late_fee_dates |-> [row1_y |-> 376, row2_y |-> 346, row3_y |-> 303,
                        x_positions |-> <<220, 495, 770>>, size |-> 9] ]

(***************************************************************************)
(* Calendar dates as Python's datetime keeps them (proleptic Gregorian,    *)
(* ordinals 1 .. 3652059).                                                 *)
(***************************************************************************)
MINYEAR == 1
MAXYEAR == 9999

is_leap(y) == (y % 4 = 0) /\ ((y % 100 # 0) \/ (y % 400 = 0))

DAYS_IN_MONTH == <<31, 28, 31, 30, 31, 30, 31, 31, 30, 31, 30, 31>>
DAYS_BEFORE_MONTH == <<0, 31, 59, 90, 120, 151, 181, 212, 243, 273, 304, 334>>

days_in_month(y, m) == IF m = 2 /\ is_leap(y) THEN 29 ELSE DAYS_IN_MONTH[m]

days_before_year(y) ==
  LET p == y - 1 IN p * 365 + (p \div 4) - (p \div 100) + (p \div 400)

\* days_before_month without the leap day
days_before_month_no_leap(y, m) == DAYS_BEFORE_MONTH[m]

days_before_month(y, m) ==
  DAYS_BEFORE_MONTH[m] + (IF m > 2 /\ is_leap(y) THEN 1 ELSE 0)

ymd2ord(dt) == days_before_year(dt.y) + days_before_month(dt.y, dt.m) + dt.d

MAXORDINAL == ymd2ord([y |-> MAXYEAR, m |-> 12, d |-> 31])

ord2ymd(ordinal) ==
  LET n0   == ordinal - 1
      n400 == n0 \div 146097
      r400 == n0 % 146097
      n100 == r400 \div 36524
      r100 == r400 % 36524
      n4   == r100 \div 1461
      r4   == r100 % 1461
      n1   == r4 \div 365
      n    == r4 % 365
      year == n400 * 400 + 1 + n100 * 100 + n4 * 4 + n1
      leapyear == (n1 = 3) /\ ((n4 # 24) \/ (n100 = 3))
      month0 == (n + 50) \div 32
      prec0  == DAYS_BEFORE_MONTH[month0]
                  + (IF month0 > 2 /\ leapyear THEN 1 ELSE 0)
      month  == IF prec0 > n THEN month0 - 1 ELSE month0
      prec   == IF prec0 > n
                THEN prec0 - (DAYS_IN_MONTH[month]
                                + (IF month = 2 /\ leapyear THEN 1 ELSE 0))
                ELSE prec0
  IN  IF n1 = 4 \/ n100 = 4
      THEN [y |-> year - 1, m |-> 12, d |-> 31]
      ELSE [y |-> year, m |-> month, d |-> n - prec + 1]

\* datetime + timedelta(days=n): the sum, or OverflowError ("date value out
\* of range") when it leaves MINYEAR .. MAXYEAR.
OverflowError == [exc |-> "OverflowError"]
ValueError == [exc |-> "ValueError"]

IsExc(v) == "exc" \in DOMAIN v

add_days(dt, n) ==
  LET o == ymd2ord(dt) + n
  IN  IF 0 < o /\ o <= MAXORDINAL THEN ord2ymd(o) ELSE OverflowError

(***************************************************************************)
(* Date strings.  A string of three '-' separated digit groups is the      *)
(* sequence of its groups, each with its width in characters and its       *)
(* value: "2025-05-20" is <<F(4, 2025), F(2, 5), F(2, 20)>>.               *)
(***************************************************************************)
F(w, v) == [w |-> w, v |-> v]

\* datetime.strptime(s, "%Y-%m-%d"): %Y takes exactly four digits, %m one or
\* two digits of 1..12, %d one or two digits of 1..31 (a one-digit group is
\* never 0); the date must then exist (year >= 1, day within the month).
strptime(s) ==
  IF /\ s[1].w = 4
     /\ s[2].w \in {1, 2} /\ s[2].v \in 1..12 /\ (s[2].w = 1 => s[2].v <= 9)
     /\ s[3].w \in {1, 2} /\ s[3].v \in 1..31 /\ (s[3].w = 1 => s[3].v <= 9)
     /\ s[1].v >= MINYEAR
     /\ s[3].v <= days_in_month(s[1].v, s[2].v)
  THEN [y |-> s[1].v, m |-> s[2].v, d |-> s[3].v]
  ELSE ValueError

\* the digits of n, zero padded on the left to two characters (%d, %m)
pad2(n) == IF n < 10 THEN "0" \o ToString(n) ELSE ToString(n)

\* utils.format_date: strftime("%d-%m-%Y") renders the characters of the
\* display string; the years of the model have four digits.
format_date(date) ==
  pad2(date.d) \o "-" \o pad2(date.m) \o "-" \o ToString(date.y)

\* utils.calculate_late_fee_dates: the three strings (f1, f2, f3), or the
\* exception the date arithmetic raises.
calculate_late_fee_dates(first_expiry, first_days, second_days) ==
  LET second_expiry == add_days(first_expiry, first_days)
      third_expiry  == IF IsExc(second_expiry) THEN second_expiry
                       ELSE add_days(second_expiry, second_days)
  IN  IF IsExc(second_expiry) THEN second_expiry
      ELSE IF IsExc(third_expiry) THEN third_expiry
      ELSE [f1 |-> format_date(first_expiry),
            f2 |-> format_date(second_expiry),
            f3 |-> format_date(third_expiry)]

\* utils.validate_template_exists: os.path.exists on the template file, whose
\* state on disk is "absent" or "good" (there; whether it is readable shows
\* when generate reads it).
validate_template_exists(fs) == fs # "absent"

(***************************************************************************)
(* Exceptions.  An exception is its class and its message; the classes     *)
(* that matter to the handlers' except clauses are FileNotFoundError,      *)
(* ValueError and everything else below Exception.                         *)
(***************************************************************************)
Exc(cls, msg) == [cls |-> cls, msg |-> msg]
NoExc == Exc("", "")

\* what a call into PyPDF2 / ReportLab may raise on a damaged template or a
\* failing library step: the class is the library's choice.
LibClasses == {"PdfReadError", "ValueError"}

\* where the environment lets a library step of one generate call fail:
\* nowhere, in reading the template (a file that is there but unreadable or
\* corrupt), in the k-th drawString, in the merge or in the final write.
LibFaults ==
  {[at |-> "none", k |-> 0, cls |-> "PdfReadError"]}
    \cup {[at |-> a, k |-> 0, cls |-> c] :
            a \in {"read", "merge", "write"}, c \in LibClasses}
    \cup {[at |-> "draw", k |-> 14, cls |-> c] : c \in LibClasses}

(***************************************************************************)
(* pdf_generator.py                                                        *)
(***************************************************************************)
\* the first page of the template file as PyPDF2 reads it
TemplatePage == [width |-> 842, height |-> 595, content |-> "template"]

\* PDFGenerator.__init__
PDFGenerator_init(template_path) ==
  [template_path |-> template_path, coords |-> COORDINATES]

\* canvas.Canvas(packet, pagesize=(page_width, page_height))
Canvas(page_width, page_height) ==
  [pagesize |-> <<page_width, page_height>>, draws |-> <<>>]

\* PDFGenerator._draw_text: setFont(FONT_NAME, size); drawString(x, y, text)
draw_text(c, text, x, y, size) ==
  [c EXCEPT !.draws =
     Append(@, [text |-> text, x |-> x, y |-> y, size |-> size, font |-> FONT_NAME])]

\* for x in x_positions: self._draw_text(canvas_obj, text, x, y, size)
RECURSIVE draw_each(_, _, _, _, _)
draw_each(c, text, xs, y, size) ==
  IF xs = <<>> THEN c
  ELSE draw_each(draw_text(c, text, Head(xs), y, size), text, Tail(xs), y, size)

draw_challan_no(self, c, number) ==
  draw_each(c, number, self.coords.challan_no.x_positions,
            self.coords.challan_no.y, DEFAULT_FONT_SIZE)

draw_name(self, c, name) ==
  draw_each(c, name, self.coords.name.x_positions,
            self.coords.name.y, DEFAULT_FONT_SIZE)

draw_roll(self, c, roll) ==
  draw_each(c, roll, self.coords.roll.x_positions,
            self.coords.roll.y, DEFAULT_FONT_SIZE)

\* draw_class at the x positions of the roll number
draw_class_at_roll(self, c, class_name) ==
  draw_each(c, class_name, self.coords.roll.x_positions,
            self.coords.class.y, DEFAULT_FONT_SIZE)

draw_class(self, c, class_name) ==
  draw_each(c, class_name, self.coords.class.x_positions,
            self.coords.class.y, DEFAULT_FONT_SIZE)

draw_expiry_dates(self, c, date) ==
  draw_each(c, date, self.coords.expiry_date.x_positions,
            self.coords.expiry_date.y, DEFAULT_FONT_SIZE)

draw_late_fee_dates(self, c, date1, date2, date3) ==
  LET coords == self.coords.late_fee_dates
      size   == coords.size
      r1 == draw_each(c, date1, coords.x_positions, coords.row1_y, size)
      r2 == draw_each(r1, date2, coords.x_positions, coords.row2_y, size)
  IN  draw_each(r2, date3, coords.x_positions, coords.row3_y, size)

\* the "Draw all content" block of generate
draw_all(self, c, challan_no, student_name, roll_number, class_name, fees) ==
  LET c1 == draw_challan_no(self, c, challan_no)
      c2 == draw_name(self, c1, student_name)
      c3 == draw_roll(self, c2, roll_number)
      c4 == draw_class(self, c3, class_name)
      c5 == draw_expiry_dates(self, c4, fees.f1)
  IN  draw_late_fee_dates(self, c5, fees.f2, fees.f3, fees.f3)

\* merge_pages without the second merge_page call
merge_pages_template_only(original_page, overlay) ==
  [width  |-> original_page.width,
   height |-> original_page.height,
   layers |-> <<original_page.content>>]

\* merged_page: a blank page of the template's size with the template page
\* merged first and the overlay page second; the writer holds that one page.
merge_pages(original_page, overlay) ==
  [width  |-> original_page.width,
   height |-> original_page.height,
   layers |-> <<original_page.content, overlay>>]

\* How one call of generate ends: the bytes it returns (the sequence of the
\* written pages, <<>> when it raised), the exception it raised, the steps it
\* completed, its late-fee strings (f1, f2, f3) and the overlay it had drawn
\* when it stopped, and the instance afterwards.
Outcome(ret, exc, steps, fees, canvas, self) ==
  [ret |-> ret, exc |-> exc, steps |-> steps, fees |-> fees,
   canvas |-> canvas, self |-> self]

NoFees == [f1 |-> "", f2 |-> "", f3 |-> ""]

NoCanvas == Canvas(0, 0)

\* PDFGenerator.generate, on a template file in state fs and with the library
\* failure lib.
generate(self, challan_no, student_name, roll_number, class_name, expiry_date_str, fs, lib) ==
  LET original_page == TemplatePage
      c0 == Canvas(original_page.width, original_page.height)
      first_expiry == strptime(expiry_date_str)
      fees == calculate_late_fee_dates(first_expiry, FIRST_LATE_FEE_DAYS,
                                       SECOND_LATE_FEE_DAYS)
      c == draw_all(self, c0, challan_no, student_name, roll_number,
                    class_name, fees)
      partial == [c EXCEPT !.draws = SubSeq(@, 1, lib.k - 1)]
      merged_page == merge_pages(original_page, c)
      failure == Exc(lib.cls, "library failure")
  IN  IF fs = "absent"
      THEN Outcome(<<>>, Exc("FileNotFoundError", "No such file or directory"),
                   <<>>, NoFees, NoCanvas, self)
      ELSE IF lib.at = "read"
      THEN Outcome(<<>>, failure, <<>>, NoFees, NoCanvas, self)
      ELSE IF IsExc(first_expiry)
      THEN Outcome(<<>>, Exc("ValueError", "Invalid date format. Use %Y-%m-%d"),
                   <<"load", "canvas">>, NoFees, c0, self)
      ELSE IF IsExc(fees)
      THEN Outcome(<<>>, Exc(fees.exc, "date value out of range"),
                   <<"load", "canvas", "parse">>, NoFees, c0, self)
      ELSE IF lib.at = "draw"
      THEN Outcome(<<>>, failure, <<"load", "canvas", "parse", "dates">>,
                   fees, partial, self)
      ELSE IF lib.at = "merge"
      THEN Outcome(<<>>, failure,
                   <<"load", "canvas", "parse", "dates", "draw", "save">>,
                   fees, c, self)
      ELSE IF lib.at = "write"
      THEN Outcome(<<>>, failure,
                   <<"load", "canvas", "parse", "dates", "draw", "save", "merge">>,
                   fees, c, self)
      ELSE Outcome(<<merged_page>>, NoExc,
                   <<"load", "canvas", "parse", "dates", "draw", "save",
                     "merge", "write">>,
                   fees, c, self)

(***************************************************************************)
(* models.py                                                               *)
(***************************************************************************)
\* a validator that keeps every string
validate_date_format_any(v) == TRUE

\* PDFRequest.validate_date_format: the string is kept when it parses
validate_date_format(v) == ~IsExc(strptime(v))

\* PDFRequest: the length constraints of the four text fields and the
\* validator of expiry_date; a body that fails is answered by the framework
\* with 422 before the handler runs.
PDFRequest_valid(body) ==
  /\ Len(body.challan_no) >= 1   /\ Len(body.challan_no) <= 50
  /\ Len(body.student_name) >= 1 /\ Len(body.student_name) <= 100
  /\ Len(body.roll_number) >= 1  /\ Len(body.roll_number) <= 50
  /\ Len(body.class_name) >= 1   /\ Len(body.class_name) <= 50
  /\ validate_date_format(body.expiry_date)

(***************************************************************************)
(* main.py: responses                                                      *)
(***************************************************************************)
Reply(status, media_type, detail, content, health, template_available) ==
  [status |-> status, media_type |-> media_type, detail |-> detail,
   content |-> content, health |-> health,
   template_available |-> template_available]

NoResp == Reply(0, "", "", <<>>, "", FALSE)

\* raise HTTPException(status_code=..., detail=...)
HTTPException(status_code, detail) ==
  Reply(status_code, "application/json", detail, <<>>, "", FALSE)

\* the framework's answer to a body that fails PDFRequest
RequestValidationError ==
  Reply(422, "application/json", "Date must be in YYYY-MM-DD format or field out of bounds",
        <<>>, "", FALSE)

\* Response(content=pdf_bytes, media_type="application/pdf", ...)
PdfResponse(pdf_bytes) ==
  Reply(200, "application/pdf", "", pdf_bytes, "", FALSE)

TemplateNotFound ==
  HTTPException(500, "Template PDF '" \o TEMPLATE_PDF_PATH \o "' not found")

\* generate_pdf_endpoint_try answering a FileNotFoundError with 404
generate_pdf_endpoint_try_404(r) ==
  IF r.exc = NoExc THEN PdfResponse(r.ret)
  ELSE IF r.exc.cls = "FileNotFoundError" THEN HTTPException(404, r.exc.msg)
  ELSE IF r.exc.cls = "ValueError" THEN HTTPException(400, r.exc.msg)
  ELSE HTTPException(500, "Error generating PDF: " \o r.exc.msg)

\* the try/except of generate_pdf_endpoint around pdf_generator.generate
generate_pdf_endpoint_try(r) ==
  IF r.exc = NoExc THEN PdfResponse(r.ret)
  ELSE IF r.exc.cls = "FileNotFoundError" THEN HTTPException(500, r.exc.msg)
  ELSE IF r.exc.cls = "ValueError" THEN HTTPException(400, r.exc.msg)
  ELSE HTTPException(500, "Error generating PDF: " \o r.exc.msg)

\* the try/except of generate_sample_pdf
generate_sample_pdf_try(r) ==
  IF r.exc = NoExc THEN PdfResponse(r.ret)
  ELSE HTTPException(500, "Error generating sample PDF: " \o r.exc.msg)

\* the body of health_check
health_reply(fs) ==
  LET template_exists == validate_template_exists(fs)
  IN  Reply(200, "application/json", "", <<>>,
            IF template_exists THEN "healthy" ELSE "degraded", template_exists)

(***************************************************************************)
(* Requests                                                                *)
(***************************************************************************)
Body(challan_no, student_name, roll_number, class_name, expiry_date) ==
  [challan_no |-> challan_no, student_name |-> student_name,
   roll_number |-> roll_number, class_name |-> class_name,
   expiry_date |-> expiry_date]

\* the fixed values of generate_sample_pdf
SampleBody ==
  Body("22", "Adeel Ahmed", "232201010", "BSCS-5-A",
       <<F(4, 2025), F(2, 5), F(2, 20)>>)

NoBody == Body("", "", "", "", <<>>)

SampleYear == SampleBody.expiry_date[1].v

\* the years the request dates are drawn from in full
Years == (SampleYear - YearsBack) .. SampleYear

\* YYYY-MM-DD strings, month and day groups of two digits, in and out of
\* range: every month of Years, and the days of the century years of both
\* leap rules and of the last year datetime represents
IsoStrings ==
  {<<F(4, y), F(2, m), F(2, d)>> : y \in Years, m \in 0..13, d \in 0..32}
    \cup {<<F(4, y), F(2, m), F(2, d)>> :
            y \in {1900, 2000, MAXYEAR}, m \in 1..12, d \in 1..31}

\* strings of other shapes: DD-MM-YYYY, year 0000, one-digit groups
OtherStrings ==
  { <<F(2, 20), F(2, 5), F(4, 2025)>>, <<F(4, 0), F(2, 5), F(2, 20)>>,
    <<F(4, 2025), F(1, 5), F(1, 9)>>, <<F(4, 2025), F(1, 0), F(2, 20)>>,
    <<F(2, 25), F(2, 5), F(2, 20)>>, <<F(4, 2025), F(2, 5), F(3, 20)>> }

FewDates ==
  { SampleBody.expiry_date, <<F(4, 2024), F(2, 2), F(2, 22)>>,
    <<F(4, MAXYEAR), F(2, 12), F(2, 25)>>, <<F(4, 2025), F(2, 13), F(2, 40)>> }

LongText == "123456789012345678901234567890123456789012345678901"

Bodies ==
  {Body(SampleBody.challan_no, SampleBody.student_name, SampleBody.roll_number,
        SampleBody.class_name, e) : e \in IsoStrings \cup OtherStrings}
    \cup
  {Body(n, s, r, c, e) :
     n \in {"22", "CH-101", "", LongText}, s \in {"Adeel Ahmed", "Sara Khan"},
     r \in {"232201010", "7"}, c \in {"BSCS-5-A", ""}, e \in FewDates}

(***************************************************************************)
(* State                                                                   *)
(***************************************************************************)
VARIABLES
  fs,             \* the template file on disk: "absent" or "good"
  pdf_generator,  \* the PDFGenerator instance shared by all requests
  pc,             \* the event loop: "idle", "checked" (between the handler's
                  \* existence check and its call of generate) or "done"
  req,            \* the request being served, and the state of the template
                  \* file when its handler started
  resp,           \* the response of the request just served
  run,            \* what the call of generate made for this request did, and
                  \* the state of the template file when it was called
  sample_seen,    \* the content of the last successful sample response that
                  \* has left
  store,          \* the n8n_data collection: the stored challan documents
  dbreq,          \* the store operation just performed and the store before it
  dbresp,         \* its response
  history         \* the calls of create_challan and delete_challan so far, in
                  \* the order the collection performed them

vars == <<fs, pdf_generator, pc, req, resp, run, sample_seen, store, dbreq, dbresp, history>>
gen_vars == <<pdf_generator, pc, req, resp, run, sample_seen>>
db_vars == <<store, dbreq, dbresp, history>>

Request(op, body, fs0) == [op |-> op, body |-> body, fs0 |-> fs0]
NoReq == Request("", NoBody, "")

Ran(r, fs1) ==
  [called |-> TRUE, fs1 |-> fs1, ret |-> r.ret, exc |-> r.exc,
   steps |-> r.steps, fees |-> r.fees, canvas |-> r.canvas]
NoRun ==
  [called |-> FALSE, fs1 |-> "", ret |-> <<>>, exc |-> NoExc, steps |-> <<>>,
   fees |-> NoFees, canvas |-> NoCanvas]

NoDbReq == [op |-> "", email |-> "", before |-> <<>>]
DbReply(status, detail, records, deleted_count) ==
  [status |-> status, detail |-> detail, records |-> records,
   deleted_count |-> deleted_count]
NoDbResp == DbReply(0, "", <<>>, 0)

Init ==
  /\ fs \in {"good", "absent"}
  /\ pdf_generator = PDFGenerator_init(TEMPLATE_PDF_PATH)
  /\ pc = "idle"
  /\ req = NoReq
  /\ resp = NoResp
  /\ run = NoRun
  /\ sample_seen = <<>>
  /\ store = <<>>
  /\ dbreq = NoDbReq
  /\ dbresp = NoDbResp
  /\ history = <<>>

(***************************************************************************)
(* main.py: the handlers served on the event loop                          *)
(***************************************************************************)
\* GET /health
health_check ==
  /\ pc = "idle"
  /\ req' = Request("health", NoBody, fs)
  /\ resp' = health_reply(fs)
  /\ run' = NoRun
  /\ pc' = "done"
  /\ UNCHANGED <<fs, pdf_generator, sample_seen, db_vars>>

\* POST /generate-pdf, up to the call of generate: the framework validates the
\* body, then the handler checks that the template exists.
generate_pdf_endpoint_check(body) ==
  /\ pc = "idle"
  /\ req' = Request("generate-pdf", body, fs)
  /\ run' = NoRun
  /\ IF ~PDFRequest_valid(body)
     THEN resp' = RequestValidationError /\ pc' = "done"
     ELSE IF ~validate_template_exists(fs)
     THEN resp' = TemplateNotFound /\ pc' = "done"
     ELSE resp' = NoResp /\ pc' = "checked"
  /\ UNCHANGED <<fs, pdf_generator, sample_seen, db_vars>>

\* POST /generate-pdf, the try block
generate_pdf_endpoint_generate(lib) ==
  /\ pc = "checked" /\ req.op = "generate-pdf"
  /\ \E r \in {generate(pdf_generator, req.body.challan_no,
                         req.body.student_name, req.body.roll_number,
                         req.body.class_name, req.body.expiry_date, fs, lib)} :
       /\ resp' = generate_pdf_endpoint_try(r)
       /\ run' = Ran(r, fs)
       /\ pdf_generator' = r.self
  /\ pc' = "done"
  /\ UNCHANGED <<fs, req, sample_seen, db_vars>>

\* GET /generate-pdf-sample, up to the call of generate
generate_sample_pdf_check ==
  /\ pc = "idle"
  /\ req' = Request("generate-pdf-sample", SampleBody, fs)
  /\ run' = NoRun
  /\ IF ~validate_template_exists(fs)
     THEN resp' = TemplateNotFound /\ pc' = "done"
     ELSE resp' = NoResp /\ pc' = "checked"
  /\ UNCHANGED <<fs, pdf_generator, sample_seen, db_vars>>

\* the try block of the sample handler with a generate that moves the first
\* late-fee row of the shared table down in place
generate_sample_pdf_generate_inplace(lib) ==
  /\ pc = "checked" /\ req.op = "generate-pdf-sample"
  /\ \E r \in {generate(pdf_generator, req.body.challan_no,
                         req.body.student_name, req.body.roll_number,
                         req.body.class_name, req.body.expiry_date, fs, lib)} :
       /\ resp' = generate_sample_pdf_try(r)
       /\ run' = Ran(r, fs)
       /\ pdf_generator' =
            [r.self EXCEPT !.coords.late_fee_dates.row1_y = @ - 30]
  /\ pc' = "done"
  /\ UNCHANGED <<fs, req, sample_seen, db_vars>>

\* GET /generate-pdf-sample, the try block
generate_sample_pdf_generate(lib) ==
  /\ pc = "checked" /\ req.op = "generate-pdf-sample"
  /\ \E r \in {generate(pdf_generator, req.body.challan_no,
                         req.body.student_name, req.body.roll_number,
                         req.body.class_name, req.body.expiry_date, fs, lib)} :
       /\ resp' = generate_sample_pdf_try(r)
       /\ run' = Ran(r, fs)
       /\ pdf_generator' = r.self
  /\ pc' = "done"
  /\ UNCHANGED <<fs, req, sample_seen, db_vars>>

\* the response leaves; the loop takes the next request
Respond ==
  /\ pc = "done"
  /\ pc' = "idle"
  /\ req' = NoReq
  /\ resp' = NoResp
  /\ run' = NoRun
  /\ sample_seen' = IF req.op = "generate-pdf-sample" /\ resp.status = 200
                    THEN resp.content ELSE sample_seen
  /\ UNCHANGED <<fs, pdf_generator, db_vars>>

(***************************************************************************)
(* The template file, which the service only reads: it can be removed or   *)
(* put back at any moment.                                                 *)
(***************************************************************************)
TemplateChanges(state) ==
  /\ fs # state
  /\ fs' = state
  /\ UNCHANGED <<gen_vars, db_vars>>

(***************************************************************************)
(* main.py: the store routes, each one call into the n8n_data collection   *)
(***************************************************************************)
\* ChallanSchema as create_challan stores it: the fields of the body, status
\* defaulting to "pending", created_at set by the handler.
ChallanSchema(challan_no, email) ==
  [challan_no |-> challan_no, student_name |-> "Adeel Ahmed",
   roll_number |-> "232201010", class_name |-> "BSCS-5-A", email |-> email,
   expiry_date |-> "2025-05-20", status |-> "pending",
   created_at |-> "utcnow"]

\* EmailStr: the address has a local part, one @ and a domain
ValidEmails == {"adeel@example.com", "sara@example.com"}
Emails == ValidEmails \cup {"not-an-email"}
Challans == {ChallanSchema(n, e) : n \in {"CH-101", "CH-102"}, e \in Emails}

\* delete_one: only the first matching document goes
RECURSIVE delete_first(_, _)
delete_first(docs, email) ==
  IF docs = <<>> THEN <<>>
  ELSE IF Head(docs).email = email THEN Tail(docs)
  ELSE <<Head(docs)>> \o delete_first(Tail(docs), email)

\* collection.delete_many({"email": email}): the documents that stay
RECURSIVE delete_many(_, _)
delete_many(docs, email) ==
  IF docs = <<>> THEN <<>>
  ELSE IF Head(docs).email = email THEN delete_many(Tail(docs), email)
  ELSE <<Head(docs)>> \o delete_many(Tail(docs), email)

\* result.deleted_count
deleted_count(docs, email) == Len(docs) - Len(delete_many(docs, email))

DbReq(op, email) == [op |-> op, email |-> email, before |-> store]

\* one performed call of a handler that writes to the collection
NoChallan == ChallanSchema("", "")
Call(op, challan, email, status) ==
  [op |-> op, challan |-> challan, email |-> email, status |-> status]

\* an insert that first removes the documents of the same email
insert_one_upsert(docs, doc) == Append(delete_many(docs, doc.email), doc)

\* n8n_collection.insert_one(challan_data)
insert_one(docs, doc) == Append(docs, doc)

\* POST /create-challan
create_challan(challan) ==
  /\ dbresp = NoDbResp
  /\ Len(store) < MaxStore
  /\ Len(history) < MaxCalls
  /\ dbreq' = DbReq("create", challan.email)
  /\ IF challan.email \notin ValidEmails
     THEN /\ dbresp' = DbReply(422, "value is not a valid email address", <<>>, 0)
          /\ store' = store
          /\ history' = history
     ELSE /\ store' = insert_one(store, challan)
          /\ dbresp' = DbReply(200, "", <<challan>>, 0)
          /\ history' = Append(history, Call("create", challan, challan.email, 200))
  /\ UNCHANGED <<fs, gen_vars>>

\* GET /list-challans
list_challans ==
  /\ dbresp = NoDbResp
  /\ dbreq' = DbReq("list", "")
  /\ dbresp' = DbReply(200, "", store, 0)
  /\ UNCHANGED <<fs, gen_vars, store, history>>

\* DELETE /delete-challan/{email}
delete_challan(email) ==
  /\ dbresp = NoDbResp
  /\ Len(history) < MaxCalls
  /\ dbreq' = DbReq("delete", email)
  /\ store' = delete_many(store, email)
  /\ LET n == deleted_count(store, email)
     IN  /\ dbresp' =
              IF n = 0
              THEN DbReply(404, "No challan found for email: " \o email, <<>>, n)
              ELSE DbReply(200, "Deleted " \o ToString(n) \o " record(s) for email: "
                                  \o email, <<>>, n)
         /\ history' = Append(history, Call("delete", NoChallan, email,
                                            IF n = 0 THEN 404 ELSE 200))
  /\ UNCHANGED <<fs, gen_vars>>

\* the store route's response leaves
DbRespond ==
  /\ dbresp # NoDbResp
  /\ dbreq' = NoDbReq
  /\ dbresp' = NoDbResp
  /\ UNCHANGED <<fs, gen_vars, store, history>>

Next ==
  \/ health_check
  \/ pc = "idle" /\ \E body \in Bodies : generate_pdf_endpoint_check(body)
  \/ pc = "checked" /\ \E lib \in LibFaults : generate_pdf_endpoint_generate(lib)
  \/ generate_sample_pdf_check
  \/ pc = "checked" /\ \E lib \in LibFaults : generate_sample_pdf_generate(lib)
  \/ Respond
  \/ \E state \in {"good", "absent"} : TemplateChanges(state)

Spec == Init /\ [][Next]_vars

\* the store routes alone
NextStore ==
  \/ \E challan \in Challans : create_challan(challan)
  \/ list_challans
  \/ \E email \in Emails \cup {"nobody@example.com"} : delete_challan(email)
  \/ DbRespond

SpecStore == Init /\ [][NextStore]_vars

\* every route of the service: the store routes run in the thread pool while
\* the generation and health handlers run on the event loop, so their steps
\* interleave in any order
ServiceBodies ==
  {SampleBody,
   Body("CH-101", "Sara Khan", "7", "BSCS-5-A", <<F(2, 20), F(2, 5), F(4, 2025)>>)}
ServiceFaults == {lib \in LibFaults : lib.at \in {"none", "merge"} /\ lib.cls = "PdfReadError"}
ServiceChallans == {ChallanSchema("CH-101", e) : e \in Emails}
                     \cup {ChallanSchema("CH-102", "adeel@example.com")}

NextService ==
  \/ health_check
  \/ pc = "idle" /\ \E body \in ServiceBodies : generate_pdf_endpoint_check(body)
  \/ pc = "checked" /\ \E lib \in ServiceFaults : generate_pdf_endpoint_generate(lib)
  \/ generate_sample_pdf_check
  \/ pc = "checked" /\ \E lib \in ServiceFaults : generate_sample_pdf_generate(lib)
  \/ Respond
  \/ \E state \in {"good", "absent"} : TemplateChanges(state)
  \/ \E challan \in ServiceChallans : create_challan(challan)
  \/ list_challans
  \/ \E email \in Emails : delete_challan(email)
  \/ DbRespond

SpecService == Init /\ [][NextService]_vars

(***************************************************************************)
(* The calendar and the display format as the specification states them,   *)
(* independent of the ordinal arithmetic of the code.                      *)
(***************************************************************************)
RefLeap(y) == (y % 400 = 0) \/ ((y % 4 = 0) /\ (y % 100 # 0))

RefMonthLength(y, m) ==
  IF m \in {4, 6, 9, 11} THEN 30
  ELSE IF m = 2 THEN (IF RefLeap(y) THEN 29 ELSE 28)
  ELSE 31

RefNextDay(dt) ==
  IF dt.d < RefMonthLength(dt.y, dt.m) THEN [dt EXCEPT !.d = @ + 1]
  ELSE IF dt.m < 12 THEN [y |-> dt.y, m |-> dt.m + 1, d |-> 1]
  ELSE [y |-> dt.y + 1, m |-> 1, d |-> 1]

RECURSIVE RefPlusDays(_, _)
RefPlusDays(dt, n) == IF n = 0 THEN dt ELSE RefPlusDays(RefNextDay(dt), n - 1)

RefDigit(n) == ToString(n % 10)

\* DD-MM-YYYY, digit by digit
RefFormat(dt) ==
  RefDigit(dt.d \div 10) \o RefDigit(dt.d) \o "-"
    \o RefDigit(dt.m \div 10) \o RefDigit(dt.m) \o "-" \o ToString(dt.y)

\* the date of a request whose expiry_date is a valid YYYY-MM-DD string
RefValidDate(e) ==
  /\ Len(e) = 3
  /\ e[1].w = 4 /\ e[1].v \in 1..9999
  /\ e[2].w \in {1, 2} /\ e[2].v \in 1..12 /\ (e[2].w = 1 => e[2].v < 10)
  /\ e[3].w \in {1, 2} /\ e[3].v >= 1 /\ (e[3].w = 1 => e[3].v < 10)
  /\ e[3].v <= RefMonthLength(e[1].v, e[2].v)
RefDate(e) == [y |-> e[1].v, m |-> e[2].v, d |-> e[3].v]

\* the draws of one overlay: 5 rows and 3 late-fee rows of 3 positions each
ConfiguredDraws == 3 * 5 + 3 * 3

GenerationOps == {"generate-pdf", "generate-pdf-sample"}
Done(op) == pc = "done" /\ req.op = op
Completed(step) == \E i \in DOMAIN run.steps : run.steps[i] = step

(***************************************************************************)
(* C1.  For every expiry date that parses as YYYY-MM-DD,                   *)
(* calculate_late_fee_dates(expiry, 7, 14) returns (format(expiry),        *)
(* format(expiry + 7 days), format(expiry + 21 days)) in DD-MM-YYYY, the   *)
(* days carried across month and year ends: whenever generate has parsed   *)
(* the date and called the calculator, its result is that triple.          *)
(***************************************************************************)
C1_LateFeeTriple ==
  (run.called /\ Completed("parse") /\ RefValidDate(req.body.expiry_date)) =>
    LET e == RefDate(req.body.expiry_date)
    IN  run.fees = [f1 |-> RefFormat(e),
                    f2 |-> RefFormat(RefPlusDays(e, 7)),
                    f3 |-> RefFormat(RefPlusDays(e, 7 + 14))]

\* the same triple wherever the calculator returned one
LateFeeTripleWhenReturned ==
  (run.called /\ Completed("dates")) =>
    LET e == RefDate(req.body.expiry_date)
    IN  run.fees = [f1 |-> RefFormat(e),
                    f2 |-> RefFormat(RefPlusDays(e, 7)),
                    f3 |-> RefFormat(RefPlusDays(e, 7 + 14))]

\* the draws of the overlay at position (x, y)
DrawsAt(draws, x, y) == {i \in DOMAIN draws : draws[i].x = x /\ draws[i].y = y}

TextFields == {"challan_no", "name", "roll", "class"}
FieldValue(body, f) ==
  CASE f = "challan_no" -> body.challan_no
    [] f = "name"       -> body.student_name
    [] f = "roll"       -> body.roll_number
    [] f = "class"      -> body.class_name
LateFeeRows == {COORDINATES.late_fee_dates.row1_y,
                COORDINATES.late_fee_dates.row2_y,
                COORDINATES.late_fee_dates.row3_y}

C3_MalformedDateRejected ==
  (Done("generate-pdf") /\ ~RefValidDate(req.body.expiry_date)) =>
    /\ resp.status >= 400 /\ resp.status <= 499
    /\ resp.content = <<>>
    /\ ~run.called
    /\ run.steps = <<>> /\ run.canvas.draws = <<>>

C3_Witness ==
  /\ Done("generate-pdf")
  /\ req.body.expiry_date = <<F(2, 20), F(2, 5), F(4, 2025)>>
  /\ req.fs0 = "good"
  /\ resp.status = 422

(***************************************************************************)
(* C4.  An absent template file is a status, never a crash: the health     *)
(* probe answers "degraded" with template_available false, and "healthy"   *)
(* with true exactly when the file exists; every generation call on valid  *)
(* input ends in a server-side fault (5xx) without PDF bytes, also when    *)
(* the file disappears between the handler's check and generate's load.    *)
(***************************************************************************)
C4_AbsentTemplateReported ==
  /\ Done("health") =>
       /\ resp.status = 200
       /\ (req.fs0 = "absent") <=>
            (resp.health = "degraded" /\ ~resp.template_available)
       /\ (req.fs0 # "absent") <=>
            (resp.health = "healthy" /\ resp.template_available)
  /\ \A op \in GenerationOps :
       (/\ Done(op)
        /\ RefValidDate(req.body.expiry_date)
        /\ resp.status # 422
        /\ (req.fs0 = "absent" \/ (run.called /\ run.fs1 = "absent"))) =>
         /\ resp.status >= 500 /\ resp.status <= 599
         /\ resp.content = <<>>
         /\ resp.media_type # "application/pdf"

C4_Witness ==
  /\ Done("generate-pdf")
  /\ req.fs0 = "good" /\ run.called /\ run.fs1 = "absent"
  /\ resp.status = 500

(***************************************************************************)
(* C5.  delete-challan by email, in any store state: with no record of     *)
(* exactly that email it reports not found (404) and the store is          *)
(* unchanged; with N >= 1 such records it reports N deletions, removes     *)
(* exactly those N and leaves every record of another email in place.      *)
(***************************************************************************)
C5_DeleteByEmail ==
  (dbreq.op = "delete") =>
    LET Matches(d) == d.email = dbreq.email
        Others(d)  == d.email # dbreq.email
        n == Len(SelectSeq(dbreq.before, Matches))
    IN  /\ (n = 0) => (dbresp.status = 404 /\ store = dbreq.before)
        /\ (n >= 1) =>
             /\ dbresp.status = 200
             /\ dbresp.deleted_count = n
             /\ dbresp.detail = "Deleted " \o ToString(n)
                                  \o " record(s) for email: " \o dbreq.email
             /\ store = SelectSeq(dbreq.before, Others)
             /\ Len(store) = Len(dbreq.before) - n

C5_Witness ==
  /\ dbreq.op = "delete"
  /\ dbresp.deleted_count = 2
  /\ Len(store) = 1

AllSteps == <<"load", "canvas", "parse", "dates", "draw", "save", "merge", "write">>

CompleteDocument(content) ==
  /\ Len(content) = 1
  /\ content[1].width = TemplatePage.width
  /\ content[1].height = TemplatePage.height
  /\ Len(content[1].layers) = 2
  /\ content[1].layers[1] = TemplatePage.content
  /\ content[1].layers[2].pagesize = <<TemplatePage.width, TemplatePage.height>>
  /\ Len(content[1].layers[2].draws) = ConfiguredDraws

(***************************************************************************)
(* C6.  No generation call returns partial output: a creation or sample    *)
(* call ends either with the complete merged document (the template layer  *)
(* and an overlay holding every configured draw, serialized after the      *)
(* merge) or with an error response carrying no document bytes; a failure  *)
(* at any step never yields a response that contains a document.           *)
(***************************************************************************)
C6_CompleteOrNothing ==
  \A op \in GenerationOps :
    Done(op) =>
      \/ /\ resp.status = 200
         /\ resp.media_type = "application/pdf"
         /\ CompleteDocument(resp.content)
         /\ run.called /\ run.exc = NoExc /\ run.steps = AllSteps
         /\ resp.content[1].layers[2] = run.canvas
      \/ /\ resp.status >= 400
         /\ resp.media_type # "application/pdf"
         /\ resp.content = <<>>
         /\ (run.called => run.exc # NoExc /\ run.steps # AllSteps)

\* a call that failed in a late drawString, with part of the overlay drawn
C6_Witness ==
  /\ Done("generate-pdf-sample")
  /\ run.called /\ run.exc # NoExc
  /\ Len(run.canvas.draws) = 13
  /\ resp.status = 500 /\ resp.content = <<>>

ValidInput(body) ==
  /\ \A f \in TextFields :
       Len(FieldValue(body, f)) >= 1
         /\ Len(FieldValue(body, f)) <= (IF f = "name" THEN 100 ELSE 50)
  /\ RefValidDate(body.expiry_date)

RenderingFailed == run.called /\ run.exc.msg = "library failure"

(***************************************************************************)
(* C7.  Failure kinds stay distinguishable at the creation operation: a    *)
(* missing template file is the "template not found" server-side fault     *)
(* (5xx); an unreadable or corrupt template and any other exception raised *)
(* while rendering or merging is a generic server-side fault (5xx) with    *)
(* the underlying message attached; the validation error (4xx) is produced *)
(* only for invalid caller input, never for a rendering or merging         *)
(* failure.                                                                *)
(***************************************************************************)
C7_FailureKindsDistinct ==
  Done("generate-pdf") =>
    /\ resp.status # 0
    /\ (req.fs0 = "absent" /\ ValidInput(req.body)) =>
         (resp.status = 500 /\ resp = TemplateNotFound)
    /\ (run.called /\ run.fs1 = "absent") =>
         (resp.status = 500 /\ resp.detail = run.exc.msg)
    /\ RenderingFailed =>
         /\ resp.status = 500
         /\ resp.detail = "Error generating PDF: " \o run.exc.msg
    /\ (resp.status >= 400 /\ resp.status <= 499) => ~ValidInput(req.body)

\* the same with the one failing case left out: a library exception that is a
\* ValueError
FailureKindsDistinctButValueError ==
  Done("generate-pdf") =>
    /\ resp.status # 0
    /\ (req.fs0 = "absent" /\ ValidInput(req.body)) =>
         (resp.status = 500 /\ resp = TemplateNotFound)
    /\ (run.called /\ run.fs1 = "absent") =>
         (resp.status = 500 /\ resp.detail = run.exc.msg)
    /\ (RenderingFailed /\ run.exc.cls # "ValueError") =>
         /\ resp.status = 500
         /\ resp.detail = "Error generating PDF: " \o run.exc.msg
    /\ (resp.status >= 400 /\ resp.status <= 499 /\ ~RenderingFailed)
         => ~ValidInput(req.body)

(***************************************************************************)
(* C8.  The Date Calculator has no error conditions: for every expiry date *)
(* the input pattern accepts (0001-01-01 .. 9999-12-31) and the offsets 7  *)
(* and 14 it returns three date strings, so a validated request with the   *)
(* template present never ends in an error caused by the date arithmetic.  *)
(***************************************************************************)
C8_DateCalculatorNeverFails ==
  (run.called /\ Completed("parse") /\ RefValidDate(req.body.expiry_date)) =>
    /\ Completed("dates")
    /\ run.exc.cls # "OverflowError"
    /\ run.fees # NoFees

(***************************************************************************)
(* C9.  Generation is a deterministic function of its inputs and the       *)
(* template: two invocations with identical field values (any two sample   *)
(* invocations in particular) produce the same draws and page dimensions,  *)
(* whatever was served before; no generation call mutates the shared       *)
(* coordinate table or the shared PDFGenerator instance.                   *)
(***************************************************************************)
C9_Deterministic ==
  /\ pdf_generator.coords = COORDINATES
  /\ pdf_generator.template_path = TEMPLATE_PDF_PATH
  /\ \A op \in GenerationOps :
       (Done(op) /\ resp.status = 200) =>
         /\ (req.body = SampleBody /\ sample_seen # <<>>) =>
              /\ resp.content[1].layers[2].draws = sample_seen[1].layers[2].draws
              /\ resp.content[1].layers[2].pagesize = sample_seen[1].layers[2].pagesize
              /\ resp.content = sample_seen
         /\ resp.content[1].layers[2].pagesize
              = <<TemplatePage.width, TemplatePage.height>>
         /\ \A i \in DOMAIN resp.content[1].layers[2].draws :
              LET d == resp.content[1].layers[2].draws[i]
              IN  \/ \E f \in TextFields : d.text = FieldValue(req.body, f)
                  \/ d.text \in {run.fees.f1, run.fees.f2, run.fees.f3}

\* a second sample document, served after an earlier one has left
C9_Witness ==
  /\ Done("generate-pdf-sample") /\ resp.status = 200
  /\ sample_seen # <<>>

RowShows(draws, xs, y, text) ==
  \A j \in 1..3 :
    /\ DrawsAt(draws, xs[j], y) # {}
    /\ \A i \in DrawsAt(draws, xs[j], y) : draws[i].text = text

(***************************************************************************)
(* C10.  In every generated document each date row shows one value at its  *)
(* 3 x positions: the expiry-date row format(expiry_date), late-fee row 1  *)
(* format(expiry_date + 7 days), late-fee row 2 format(expiry_date + 7 +   *)
(* 14 days), and late-fee row 3 the same date as row 2.                    *)
(***************************************************************************)
C10_DateRows ==
  \A op \in GenerationOps :
    (Done(op) /\ resp.status = 200) =>
      LET draws == resp.content[1].layers[2].draws
          e     == RefDate(req.body.expiry_date)
          late  == COORDINATES.late_fee_dates
          tier1 == RefFormat(RefPlusDays(e, FIRST_LATE_FEE_DAYS))
          tier2 == RefFormat(RefPlusDays(e, FIRST_LATE_FEE_DAYS + SECOND_LATE_FEE_DAYS))
      IN  /\ RowShows(draws, COORDINATES.expiry_date.x_positions,
                      COORDINATES.expiry_date.y, RefFormat(e))
          /\ RowShows(draws, late.x_positions, late.row1_y, tier1)
          /\ RowShows(draws, late.x_positions, late.row2_y, tier2)
          /\ RowShows(draws, late.x_positions, late.row3_y, tier2)

\* a document whose late-fee dates fall in the next year
C10_Witness ==
  /\ Done("generate-pdf") /\ resp.status = 200
  /\ req.body.expiry_date = <<F(4, 2024), F(2, 12), F(2, 29)>>
  /\ run.fees.f3 = "19-01-2025"

\* the records the calls made so far leave in the collection: the record of
\* each create_challan call that no later successful delete_challan of the
\* record's email followed, oldest first
Survives(h, i) ==
  /\ h[i].op = "create"
  /\ ~\E j \in (i + 1)..Len(h) :
        h[j].op = "delete" /\ h[j].status = 200 /\ h[j].email = h[i].challan.email

Surviving(h) ==
  LET kept == SelectSeq([i \in 1..Len(h) |-> i], LAMBDA i : Survives(h, i))
  IN  [k \in 1..Len(kept) |-> h[kept[k]].challan]

(***************************************************************************)
(* C11.  After any interleaving of create-challan, list-challans,          *)
(* delete-challan, generate-pdf, generate-pdf-sample and health calls the  *)
(* collection holds exactly one record per create-challan call whose email *)
(* no later successful delete-challan targeted: a create adds exactly its  *)
(* one record (same challan_no or email as a stored record allowed), list  *)
(* answers with all stored records and leaves them alone, and the store is *)
(* the same whatever generation and health requests were served, so a PDF  *)
(* is generated with no record and a record exists with no PDF.            *)
(***************************************************************************)
C11_StoreFollowsCalls ==
  /\ store = Surviving(history)
  /\ (dbreq.op = "create" /\ dbresp.status = 200) =>
       /\ Len(store) = Len(dbreq.before) + 1
       /\ SubSeq(store, 1, Len(dbreq.before)) = dbreq.before
       /\ store[Len(store)] = dbresp.records[1]
       /\ store[Len(store)].email = dbreq.email
  /\ (dbreq.op = "list") =>
       /\ dbresp.status = 200
       /\ dbresp.records = dbreq.before
       /\ store = dbreq.before

\* two records of one email and one of another were created and the pair was
\* deleted, while a sample document generated with no record of it is leaving
C11_Witness ==
  /\ Done("generate-pdf-sample") /\ resp.status = 200
  /\ Len(history) = 4 /\ history[4].op = "delete" /\ history[4].status = 200
  /\ history[1].challan.email = history[2].challan.email
  /\ history[1].challan.challan_no # history[2].challan.challan_no
  /\ Len(store) = 1 /\ store[1].email = "sara@example.com"

====
